---- MODULE Spec2Model ----
(***************************************************************************)
(* pyRAPL: the measurement session (Measurement), the repeated-run         *)
(* decorator (measureit) and the print sink (PrintOutput).                 *)
(*                                                                         *)
(* Python values are tagged records, so that values of different Python    *)
(* types can be stored in the same field and compared:                     *)
(*   None            [k |-> "None"]                                        *)
(*   int v           [k |-> "int", v |-> v]                                *)
(*   float           [k |-> "float", num, den, e]  = (num/den) * 10^e      *)
(*   float (surd)    [k |-> "root",  num, den, e]  = sqrt(num/den) * 10^e  *)
(*   float nan       [k |-> "nan"]                                         *)
(*   list / ndarray  [k |-> "list", items |-> <<...>>]                     *)
(* Floats are kept exact (rationals, square roots of rationals, a decimal  *)
(* exponent for the division by 10^9): rounding is not modelled.           *)
(***************************************************************************)
EXTENDS Integers, Sequences, FiniteSets, TLC

VARIABLES
    pc,             \* position of the running top-level call
    method,         \* measureit(method=...)
    number,         \* measureit(number=...)
    raw,            \* PrintOutput(raw=...)
    i,              \* loop index of wrapper_measure
    val,            \* wrapper_measure's local val
    df,             \* wrapper_measure's local df (the sample table)
    _results,       \* Measurement._results
    _energy_begin,  \* Measurement._energy_begin
    _ts_begin,      \* Measurement._ts_begin
    now,            \* the clock read by time_ns()
    counters,       \* the counters read by sensor.energy()
    sink,           \* the records handed to Output.add, in order
    stdout,         \* what PrintOutput.add printed, in order
    err,            \* the exception the last call raised, or "none"
    ret,            \* the value the last call returned
    trace,          \* the calls entered so far, in order
    ops             \* the number of direct calls made on the Measurement

vars == <<pc, method, number, raw, i, val, df, _results, _energy_begin,
          _ts_begin, now, counters, sink, stdout, err, ret, trace, ops>>

-----------------------------------------------------------------------------
(* Bounds of the model.                                                    *)

Sockets == 2        \* monitored sockets: a snapshot holds 2 * Sockets readings
MaxN == 2           \* largest number= passed to measureit
MaxTick == 2        \* longest run of the measured region, in ns
MaxEnergy == 1      \* largest counter increase per run of the measured region
MaxReading == 1     \* largest reading of an arbitrary snapshot
MaxOps == 3         \* direct calls on one Measurement

(* Program constants.                                                      *)

NS_EXP == 9         \* 1000000000 = 1e9 = 10^9, the ns -> s divisor
UJ_EXP == 6         \* 1e6 = 10^6, the uJ -> J divisor
CONF_NUM == 49      \* 1.96 = 49 / 25
CONF_DEN == 25

-----------------------------------------------------------------------------
(* Python values.                                                          *)

None == [k |-> "None"]
NaN == [k |-> "nan"]
PyInt(v) == [k |-> "int", v |-> v]
PyList(s) == [k |-> "list", items |-> s]
Array(a) == [k |-> "ndarray", a |-> a]
Unset == [k |-> "unset"]    \* an attribute or local that was never assigned
TypeError == [k |-> "TypeError"]

Min(a, b) == IF a < b THEN a ELSE b

RECURSIVE GCD(_, _)
GCD(a, b) == IF b = 0 THEN a ELSE GCD(b, a % b)

Abs(a) == IF a < 0 THEN -a ELSE a

\* The float (num / den) * 10^e, den > 0, in lowest terms.
PyFloat(num, den, e) ==
    LET g == GCD(Abs(num), den)
    IN  IF num = 0 THEN [k |-> "float", num |-> 0, den |-> 1, e |-> 0]
        ELSE [k |-> "float", num |-> num \div g, den |-> den \div g, e |-> e]

\* The integer square root of n, by bisection: lo * lo <= n < hi * hi.
RECURSIVE Bisect(_, _, _)
Bisect(n, lo, hi) ==
    IF hi - lo <= 1 THEN lo
    ELSE LET mid == (lo + hi) \div 2
         IN  IF mid * mid <= n THEN Bisect(n, mid, hi) ELSE Bisect(n, lo, mid)

ISqrt(n) == Bisect(n, 0, Min(n, 46340) + 1)

\* The float sqrt(num / den) * 10^e, num >= 0, den > 0: a rational when
\* both terms are squares.
PyRoot(num, den, e) ==
    LET g == GCD(num, den)
        n == IF num = 0 THEN 0 ELSE num \div g
        d == IF num = 0 THEN 1 ELSE den \div g
        rn == ISqrt(n)
        rd == ISqrt(d)
    IN  IF rn * rn = n /\ rd * rd = d THEN PyFloat(rn, rd, e)
        ELSE [k |-> "root", num |-> n, den |-> d, e |-> e]

IsNumber(x) == x.k \in {"int", "float", "root", "nan"}

\* x / 10^p (x / 1000000000, x / 1e9, x / 1e6): a TypeError when x is None.
DivPow10(x, p) ==
    CASE x.k = "int" -> PyFloat(x.v, 1, -p)
      [] x.k = "float" -> PyFloat(x.num, x.den, x.e - p)
      [] x.k = "root" -> PyRoot(x.num, x.den, x.e - p)
      [] x.k = "nan" -> NaN
      [] OTHER -> TypeError

\* x / n for an int n > 0.
DivInt(x, n) ==
    CASE x.k = "int" -> PyFloat(x.v, n, 0)
      [] x.k = "float" -> PyFloat(x.num, x.den * n, x.e)
      [] x.k = "root" -> PyRoot(x.num, x.den * n * n, x.e)
      [] x.k = "nan" -> NaN
      [] OTHER -> TypeError

-----------------------------------------------------------------------------
(* The sensor and the clock.                                               *)

Positions == 1..(2 * Sockets)

\* The snapshots a sensor can start from. A domain (package at the odd
\* positions, DRAM at the even ones) is supported on every socket, its
\* counters at 0, or on none, its readings the sentinel -1.
StartSnapshots ==
    {[p \in Positions |-> IF p % 2 = 1 THEN pkg0 ELSE dram0] :
        pkg0 \in {-1, 0}, dram0 \in {-1, 0}}

\* The increases of the counters over one run of the measured region: load
\* level * position, so that no two counters grow alike; the sentinel of
\* an unsupported domain stays -1.
Increases == {[p \in Positions |-> level * p] : level \in 0..MaxEnergy}
Advance(snap, inc) ==
    [p \in Positions |-> IF snap[p] < 0 THEN snap[p] ELSE snap[p] + inc[p]]

\* Arbitrary snapshots, for the delta arithmetic of end() on its own.
AnySnapshots == [Positions -> -1..MaxReading]

-----------------------------------------------------------------------------
(* measurement.py                                                          *)

RECURSIVE reduce_or(_, _)
reduce_or(acc, s) ==
    IF s = <<>> THEN acc ELSE reduce_or(acc \/ (Head(s) >= 0), Tail(s))

\* Mutant: True only when no element is negative.
empty_energy_result_All(energy_result) ==
    \A j \in 1..Len(energy_result) : energy_result[j] >= 0

empty_energy_result(energy_result) == reduce_or(FALSE, energy_result)

\* delta[0::2] and delta[1::2] (Python indexes from 0, TLA+ from 1).
Slice(delta, start) ==
    [j \in 1..((Len(delta) - start + 1) \div 2) |-> delta[start + 1 + 2 * (j - 1)]]

IntList(s) == PyList([j \in 1..Len(s) |-> PyInt(s[j])])

\* Measurement.end: the tuple (duration, pkg, dram).
MeasurementEnd(energy_begin, ts_begin, energy_end, ts_end) ==
    LET delta == [p \in 1..Len(energy_end) |-> energy_end[p] - energy_begin[p]]
        duration == ts_end - ts_begin
        pkg == Slice(delta, 0)
        dram == Slice(delta, 1)
    IN  <<PyInt(duration),
          IF empty_energy_result(pkg) THEN IntList(pkg) ELSE None,
          IF empty_energy_result(dram) THEN IntList(dram) ELSE None>>

Label == "func"

Result(label, timestamp, duration, pkg, dram, duration_conf, pkg_conf, dram_conf) ==
    [k |-> "Result", label |-> label, timestamp |-> timestamp, duration |-> duration,
     pkg |-> pkg, dram |-> dram, duration_conf |-> duration_conf,
     pkg_conf |-> pkg_conf, dram_conf |-> dram_conf]

\* Measurement.create_result: the new _results, or the exception raised
\* (self._ts_begin is read first: an AttributeError before any begin()).
create_result(ts_begin, duration, pkg, dram, duration_conf, pkg_conf, dram_conf) ==
    IF ts_begin = Unset
    THEN [err |-> "AttributeError", results |-> Unset]
    ELSE IF DivPow10(duration, NS_EXP) = TypeError
            \/ DivPow10(duration_conf, NS_EXP) = TypeError
    THEN [err |-> "TypeError", results |-> Unset]
    ELSE [err |-> "none",
          results |-> Result(Label, DivPow10(ts_begin, NS_EXP),
                             DivPow10(duration, NS_EXP), pkg, dram,
                             DivPow10(duration_conf, NS_EXP), pkg_conf, dram_conf)]

\* Result.__truediv__: duration and every energy divided by n, the rest as it is.
DivList(x, n) ==
    IF x.k = "list" THEN PyList([j \in 1..Len(x.items) |-> DivInt(x.items[j], n)])
    ELSE x

ResultDiv(r, n) ==
    [r EXCEPT !.duration = DivInt(r.duration, n),
              !.pkg = DivList(r.pkg, n),
              !.dram = DivList(r.dram, n)]

-----------------------------------------------------------------------------
(* The sample table df and _compute_stats.                                 *)

\* The columns "Duration", "Pkg_0".., "Dram_0".. as <<prefix, j>>.
Columns(npkg, ndram) ==
    <<<<"Duration", 0>>>> \o [j \in 1..npkg |-> <<"Pkg", j - 1>>]
                        \o [j \in 1..ndram |-> <<"Dram", j - 1>>]

\* pd.DataFrame(index=range(number), columns=...): every cell NaN.
NewFrame(n, columns) ==
    [columns |-> columns,
     rows |-> [r \in 1..n |-> [c \in 1..Len(columns) |-> NaN]]]

\* The cells of column c that are not NaN, top to bottom.
RECURSIVE DropNaN(_)
DropNaN(s) ==
    IF s = <<>> THEN <<>>
    ELSE IF Head(s).k = "nan" THEN DropNaN(Tail(s))
    ELSE <<Head(s)>> \o DropNaN(Tail(s))

Column(frame, c) == DropNaN([r \in 1..Len(frame.rows) |-> frame.rows[r][c]])

RECURSIVE SumV(_)
SumV(s) == IF s = <<>> THEN 0 ELSE Head(s).v + SumV(Tail(s))
RECURSIVE SumSq(_)
SumSq(s) == IF s = <<>> THEN 0 ELSE Head(s).v * Head(s).v + SumSq(Tail(s))

\* Series.mean(axis=0)
Mean(col) ==
    IF Len(col) = 0 THEN NaN ELSE PyFloat(SumV(col), Len(col), 0)

\* Series.std(axis=0): the sample standard deviation (n - 1 denominator).
Std(col) ==
    LET n == Len(col)
    IN  IF n < 2 THEN NaN
        ELSE PyRoot(n * SumSq(col) - SumV(col) * SumV(col), n * (n - 1), 0)

\* 1.96 * x
Times196(x) ==
    CASE x.k = "float" -> PyFloat(CONF_NUM * x.num, CONF_DEN * x.den, x.e)
      [] x.k = "root" -> PyRoot(CONF_NUM * CONF_NUM * x.num, CONF_DEN * CONF_DEN * x.den, x.e)
      [] OTHER -> NaN

\* x / sqrt(n), for x >= 0
DivSqrt(x, n) ==
    CASE x.k = "float" /\ n > 0 -> PyRoot(x.num * x.num, x.den * x.den * n, x.e)
      [] x.k = "root" /\ n > 0 -> PyRoot(x.num, x.den * n, x.e)
      [] OTHER -> NaN

\* The indexes of the columns whose name starts with column_prefix.
RECURSIVE WithPrefix(_, _, _)
WithPrefix(columns, column_prefix, c) ==
    IF c > Len(columns) THEN <<>>
    ELSE IF columns[c][1] = column_prefix
    THEN <<c>> \o WithPrefix(columns, column_prefix, c + 1)
    ELSE WithPrefix(columns, column_prefix, c + 1)

_compute_array_mean(frame, column_prefix) ==
    LET cs == WithPrefix(frame.columns, column_prefix, 1)
    IN  PyList([j \in 1..Len(cs) |-> Mean(Column(frame, cs[j]))])

_compute_array_conf(frame, column_prefix, denom2) ==
    LET cs == WithPrefix(frame.columns, column_prefix, 1)
    IN  PyList([j \in 1..Len(cs) |->
                   DivSqrt(Times196(Std(Column(frame, cs[j]))), denom2)])

\* _compute_stats: the six arguments handed to create_result; denom is
\* sqrt(df.count(axis=0)[0]), kept here as its square.
_compute_stats(frame) ==
    LET denom2 == Len(Column(frame, 1))
    IN  <<Std(Column(frame, 1)),
          _compute_array_mean(frame, "Pkg"),
          _compute_array_mean(frame, "Dram"),
          DivSqrt(Times196(Std(Column(frame, 1))), denom2),
          _compute_array_conf(frame, "Pkg", denom2),
          _compute_array_conf(frame, "Dram", denom2)>>

-----------------------------------------------------------------------------
(* outputs/printoutput.py                                                  *)

\* print_energy(zip(energies, confs)): one line per socket, or a TypeError.
\* A float energy is printed in J with its confidence, anything else in uJ.
SocketLine(j, energy, conf) ==
    IF energy.k \in {"float", "root", "nan"}
    THEN IF DivPow10(conf, UJ_EXP) = TypeError THEN TypeError
         ELSE [t |-> "socket", socket |-> j - 1, unit |-> "J",
               energy |-> DivPow10(energy, UJ_EXP), conf |-> DivPow10(conf, UJ_EXP)]
    ELSE [t |-> "socket", socket |-> j - 1, unit |-> "uJ",
          energy |-> energy, conf |-> None]

print_energy(energies, confs) ==
    LET n == Min(Len(energies.items), Len(confs.items))
        lines == [j \in 1..n |-> SocketLine(j, energies.items[j], confs.items[j])]
    IN  IF \E j \in 1..n : lines[j] = TypeError THEN TypeError ELSE lines

\* One domain's section: the separator, the title and the socket lines; a
\* TypeError when zip() is handed a None.
Section(title, energies, confs) ==
    IF confs.k # "list" THEN TypeError
    ELSE IF print_energy(energies, confs) = TypeError THEN TypeError
    ELSE [t |-> "lines",
          lines |-> <<[t |-> "separator"], [t |-> title]>> \o print_energy(energies, confs)]

\* PrintOutput._format_output: the lines of the text, or a TypeError.
_format_output(is_raw, result) ==
    IF is_raw THEN [t |-> "lines", lines |-> <<[t |-> "raw", result |-> result]>>]
    ELSE
    LET head == <<[t |-> "Label", label |-> result.label],
                  [t |-> "Begin", timestamp |-> result.timestamp],
                  [t |-> "Duration", duration |-> result.duration,
                   conf |-> result.duration_conf]>>
        pkg == IF result.pkg # None
               THEN Section("PKG", result.pkg, result.pkg_conf)
               ELSE [t |-> "lines", lines |-> <<>>]
        dram == IF result.dram # None
                THEN Section("DRAM", result.dram, result.dram_conf)
                ELSE [t |-> "lines", lines |-> <<>>]
    IN  IF ~IsNumber(result.duration) \/ ~IsNumber(result.duration_conf) THEN TypeError
        ELSE IF pkg = TypeError \/ dram = TypeError THEN TypeError
        ELSE [t |-> "lines",
              lines |-> head \o pkg.lines \o dram.lines
                        \o (IF result.dram # None THEN <<[t |-> "separator"]>> ELSE <<>>)]

\* Mutant: export() hands nothing to the output.
export_NoAdd(is_raw, results, sunk, printed) ==
    [err |-> IF results = Unset THEN "AttributeError" ELSE "none",
     sink |-> sunk, stdout |-> printed]

\* Measurement.export with the default output, a PrintOutput: what add()
\* was handed, what it printed and the exception raised, if any.
export(is_raw, results, sunk, printed) ==
    IF results = Unset
    THEN [err |-> "AttributeError", sink |-> sunk, stdout |-> printed]
    ELSE IF _format_output(is_raw, results) = TypeError
    THEN [err |-> "TypeError", sink |-> Append(sunk, results), stdout |-> printed]
    ELSE [err |-> "none", sink |-> Append(sunk, results),
          stdout |-> Append(printed, _format_output(is_raw, results).lines)]

-----------------------------------------------------------------------------
(* State.                                                                  *)

Methods == {"global", "confidence", "bogus"}

Ev(op) == [op |-> op]
FuncEv(v) == [op |-> "func", ret |-> v]

Init ==
    /\ pc = "idle"
    /\ method = "" /\ number = 0 /\ raw = FALSE
    /\ i = 0 /\ val = Unset /\ df = Unset
    /\ _results = Unset /\ _energy_begin = Unset /\ _ts_begin = Unset
    /\ now = 0
    /\ counters \in StartSnapshots
    /\ sink = <<>> /\ stdout = <<>>
    /\ err = "none" /\ ret = Unset
    /\ trace = <<>>
    /\ ops = 0

\* Measurement.begin
begin ==
    /\ _energy_begin' = Array(counters)
    /\ _ts_begin' = PyInt(now)

\* Measurement.end on the session's fields and the current readings.
end == MeasurementEnd(_energy_begin.a, _ts_begin.v, counters, now)

\* One run of the measured function: time passes, the counters of the
\* supported domains grow.
Run ==
    \E d \in 1..MaxTick, inc \in Increases :
        /\ now' = now + d
        /\ counters' = Advance(counters, inc)

\* What the measured function returns on its j-th run of a call: a value
\* that tells the runs apart.
FuncReturn(j) == PyInt(j)

-----------------------------------------------------------------------------
(* measureit: wrapper_measure, statement by statement.                     *)

\* Mutant: a method that is not "confidence" is measured as "global".
Branch_Default(m) ==
    IF m = "confidence" THEN [pc |-> "c_loop", err |-> "none"]
    ELSE [pc |-> "g_begin", err |-> "none"]

\* The branch on method: where the call goes on, or the exception raised.
Branch(m) ==
    CASE m = "global" -> [pc |-> "g_begin", err |-> "none"]
      [] m = "confidence" -> [pc |-> "c_loop", err |-> "none"]
      [] OTHER -> [pc |-> "failed", err |-> "ValueError"]

\* The call: Measurement(func.__name__, output), then the branch on method.
Call ==
    /\ pc = "idle"
    /\ \E m \in Methods, n \in 0..MaxN, r \in BOOLEAN :
        /\ method' = m /\ number' = n /\ raw' = r
        /\ pc' = Branch(m).pc
        /\ err' = Branch(m).err
    /\ UNCHANGED <<i, val, df, _results, _energy_begin, _ts_begin, now, counters,
                   sink, stdout, ret, trace, ops>>

\* global: sensor.begin()
GlobalBegin ==
    /\ pc = "g_begin"
    /\ begin
    /\ i' = 0
    /\ pc' = "g_loop"
    /\ trace' = Append(trace, Ev("begin"))
    /\ UNCHANGED <<method, number, raw, val, df, _results, now, counters,
                   sink, stdout, err, ret, ops>>

\* global: val = func(*args, **kwargs), number times
GlobalInvoke ==
    /\ pc = "g_loop" /\ i < number
    /\ Run
    /\ val' = FuncReturn(i + 1)
    /\ trace' = Append(trace, FuncEv(FuncReturn(i + 1)))
    /\ i' = i + 1
    /\ UNCHANGED <<pc, method, number, raw, df, _results, _energy_begin, _ts_begin,
                   sink, stdout, err, ret, ops>>

\* global: sensor.create_result(*sensor.end());
\*         sensor._results = sensor._results / number
GlobalFinish ==
    /\ pc = "g_loop" /\ i = number
    /\ LET e == end
           cr == create_result(_ts_begin, e[1], e[2], e[3], None, None, None)
       IN  IF cr.err # "none"
           THEN /\ pc' = "failed" /\ err' = cr.err
                /\ UNCHANGED _results
           ELSE IF number = 0
           THEN /\ pc' = "failed" /\ err' = "ZeroDivisionError"
                /\ _results' = cr.results
           ELSE /\ pc' = "export" /\ err' = err
                /\ _results' = ResultDiv(cr.results, number)
    /\ trace' = trace \o <<Ev("end"), Ev("create_result")>>
    /\ UNCHANGED <<method, number, raw, i, val, df, _energy_begin, _ts_begin,
                   now, counters, sink, stdout, ret, ops>>

\* Mutant: begin() is called on the first pass of the loop only.
ConfBegin_Once ==
    /\ pc = "c_loop" /\ i < number
    /\ IF i = 0
       THEN begin /\ trace' = Append(trace, Ev("begin"))
       ELSE UNCHANGED <<_energy_begin, _ts_begin, trace>>
    /\ pc' = "c_call"
    /\ UNCHANGED <<method, number, raw, i, val, df, _results, now, counters,
                   sink, stdout, err, ret, ops>>

\* confidence: sensor.begin()
ConfBegin ==
    /\ pc = "c_loop" /\ i < number
    /\ begin
    /\ pc' = "c_call"
    /\ trace' = Append(trace, Ev("begin"))
    /\ UNCHANGED <<method, number, raw, i, val, df, _results, now, counters,
                   sink, stdout, err, ret, ops>>

\* confidence: val = func(*args, **kwargs)
ConfInvoke ==
    /\ pc = "c_call"
    /\ Run
    /\ val' = FuncReturn(i + 1)
    /\ trace' = Append(trace, FuncEv(FuncReturn(i + 1)))
    /\ pc' = "c_end"
    /\ UNCHANGED <<method, number, raw, i, df, _results, _energy_begin, _ts_begin,
                   sink, stdout, err, ret, ops>>

\* df.iloc[row] = dur, *pkg, *dram
SetRow(frame, row, dur, pkg, dram) ==
    [frame EXCEPT !.rows[row] = <<dur>> \o pkg.items \o dram.items]

\* confidence: dur, pkg, dram = sensor.end(); the table is made on the
\* first pass; df.iloc[i] = dur, *pkg, *dram
ConfEnd ==
    /\ pc = "c_end"
    /\ LET e == end
           absent == e[2] = None \/ e[3] = None
           frame == IF i = 0 /\ ~absent
                    THEN NewFrame(number, Columns(Len(e[2].items), Len(e[3].items)))
                    ELSE df
       IN  IF absent
           THEN /\ pc' = "failed" /\ err' = "TypeError"
                /\ UNCHANGED <<i, df>>
           ELSE IF 1 + Len(e[2].items) + Len(e[3].items) # Len(frame.columns)
           THEN /\ pc' = "failed" /\ err' = "ValueError"
                /\ i' = i /\ df' = frame
           ELSE /\ pc' = "c_loop" /\ err' = err
                /\ i' = i + 1
                /\ df' = SetRow(frame, i + 1, e[1], e[2], e[3])
    /\ trace' = Append(trace, Ev("end"))
    /\ UNCHANGED <<method, number, raw, val, _results, _energy_begin, _ts_begin,
                   now, counters, sink, stdout, ret, ops>>

\* confidence: sensor.create_result(*_compute_stats(df))
ConfStats ==
    /\ pc = "c_loop" /\ i = number
    /\ IF df = Unset
       THEN /\ pc' = "failed" /\ err' = "UnboundLocalError"
            /\ UNCHANGED <<_results, trace>>
       ELSE LET st == _compute_stats(df)
                cr == create_result(_ts_begin, st[1], st[2], st[3], st[4], st[5], st[6])
            IN  /\ trace' = Append(trace, Ev("create_result"))
                /\ IF cr.err # "none"
                   THEN pc' = "failed" /\ err' = cr.err /\ UNCHANGED _results
                   ELSE pc' = "export" /\ err' = err /\ _results' = cr.results
    /\ UNCHANGED <<method, number, raw, i, val, df, _energy_begin, _ts_begin,
                   now, counters, sink, stdout, ret, ops>>

\* sensor.export(); return val
ExportReturn ==
    /\ pc = "export"
    /\ LET ex == export(raw, _results, sink, stdout)
       IN  /\ sink' = ex.sink /\ stdout' = ex.stdout
           /\ trace' = IF Len(ex.sink) > Len(sink) THEN Append(trace, Ev("add")) ELSE trace
           /\ IF ex.err # "none"
              THEN pc' = "failed" /\ err' = ex.err /\ ret' = ret
              ELSE IF val = Unset
              THEN pc' = "failed" /\ err' = "UnboundLocalError" /\ ret' = ret
              ELSE pc' = "returned" /\ err' = err /\ ret' = val
    /\ UNCHANGED <<method, number, raw, i, val, df, _results, _energy_begin,
                   _ts_begin, now, counters, ops>>

Next ==
    \/ Call
    \/ GlobalBegin \/ GlobalInvoke \/ GlobalFinish
    \/ ConfBegin \/ ConfInvoke \/ ConfEnd \/ ConfStats
    \/ ExportReturn

Spec == Init /\ [][Next]_vars

-----------------------------------------------------------------------------
(* Measurement used directly: every action is one call made by the client. *)

Tuple(t) == [k |-> "tuple", items |-> t]

\* Measurement(label): the default output is a PrintOutput.
New ==
    /\ pc = "idle"
    /\ pc' = "api"
    /\ \E r \in BOOLEAN : raw' = r
    /\ UNCHANGED <<method, number, i, val, df, _results, _energy_begin, _ts_begin,
                   now, counters, sink, stdout, err, ret, trace, ops>>

\* The frame every step of the client shares: the step is counted and the
\* fields of the wrapper are left alone.
Step(at) ==
    /\ pc = at /\ ops < MaxOps
    /\ ops' = ops + 1
    /\ UNCHANGED <<method, number, raw, i, val, df>>

Direct == Step("api")

\* m.begin()
CallBegin ==
    /\ Direct
    /\ begin
    /\ err' = "none" /\ ret' = None
    /\ trace' = Append(trace, Ev("begin"))
    /\ UNCHANGED <<pc, _results, now, counters, sink, stdout>>

\* The measured region runs between two calls.
Region ==
    /\ Direct
    /\ Run
    /\ trace' = Append(trace, Ev("region"))
    /\ UNCHANGED <<pc, _results, _energy_begin, _ts_begin, sink, stdout, err, ret>>

\* m.end(): an AttributeError before any begin().
CallEnd ==
    /\ Direct
    /\ IF _energy_begin = Unset
       THEN err' = "AttributeError" /\ ret' = Unset
       ELSE err' = "none" /\ ret' = Tuple(end)
    /\ trace' = Append(trace, Ev("end"))
    /\ UNCHANGED <<pc, _results, _energy_begin, _ts_begin, now, counters, sink, stdout>>

\* The (duration, pkg, dram) a client passes to create_result: what end()
\* just returned, or values of its own.
SampleSeries == {None, IntList([j \in 1..Sockets |-> j])}
Measured ==
    (IF ret.k = "tuple" THEN {ret.items} ELSE {})
    \cup {<<PyInt(1), pkg, dram>> : pkg \in SampleSeries, dram \in SampleSeries}

\* The confidence arguments a client passes: none (the defaults), the
\* duration's alone, or all three.
ConfOf(series) ==
    IF series = None THEN None
    ELSE PyList([j \in 1..Len(series.items) |-> PyFloat(1, 2, 0)])
Confidences(pkg, dram) ==
    {<<None, None, None>>,
     <<PyFloat(1, 2, 0), None, None>>,
     <<PyFloat(1, 2, 0), ConfOf(pkg), ConfOf(dram)>>}

\* m.create_result(duration, pkg, dram[, duration_conf, pkg_conf, dram_conf])
CallCreateResult ==
    /\ Direct
    /\ \E m \in Measured : \E c \in Confidences(m[2], m[3]) :
        LET cr == create_result(_ts_begin, m[1], m[2], m[3], c[1], c[2], c[3])
        IN  /\ err' = cr.err
            /\ ret' = IF cr.err = "none" THEN None ELSE Unset
            /\ _results' = IF cr.err = "none" THEN cr.results ELSE _results
    /\ trace' = Append(trace, Ev("create_result"))
    /\ UNCHANGED <<pc, _energy_begin, _ts_begin, now, counters, sink, stdout>>

\* Mutant: an unmeasured result reads as None.
result_Default(results) ==
    IF results = Unset THEN [err |-> "none", value |-> None]
    ELSE [err |-> "none", value |-> results]

\* The property Measurement.result: the record, or the exception raised.
result(results) ==
    IF results = Unset \/ results = None
    THEN [err |-> "AttributeError", value |-> Unset]
    ELSE [err |-> "none", value |-> results]

\* m.result
CallResult ==
    /\ Direct
    /\ err' = result(_results).err
    /\ ret' = result(_results).value
    /\ trace' = Append(trace, Ev("result"))
    /\ UNCHANGED <<pc, _results, _energy_begin, _ts_begin, now, counters, sink, stdout>>

\* m.export()
CallExport ==
    /\ Direct
    /\ LET ex == export(raw, _results, sink, stdout)
       IN  /\ sink' = ex.sink /\ stdout' = ex.stdout
           /\ err' = ex.err
           /\ ret' = IF ex.err = "none" THEN None ELSE Unset
           /\ trace' = IF Len(ex.sink) > Len(sink) THEN Append(trace, Ev("add")) ELSE trace
    /\ UNCHANGED <<pc, _results, _energy_begin, _ts_begin, now, counters>>

\* Measurement.__exit__(self, exc_type), called with nargs arguments after
\* self: end(), then export() when exc_type is None. A call with another
\* number of arguments is a TypeError before the body of __exit__ runs.
__exit__(nargs, exc_type) ==
    IF nargs # 1
    THEN /\ err' = "TypeError"
         /\ trace' = Append(trace, Ev("__exit__"))
         /\ UNCHANGED <<sink, stdout>>
    ELSE IF _energy_begin = Unset
    THEN /\ err' = "AttributeError"
         /\ trace' = trace \o <<Ev("__exit__"), Ev("end")>>
         /\ UNCHANGED <<sink, stdout>>
    ELSE IF exc_type # None
    THEN /\ err' = "none"
         /\ trace' = trace \o <<Ev("__exit__"), Ev("end")>>
         /\ UNCHANGED <<sink, stdout>>
    ELSE LET ex == export(raw, _results, sink, stdout)
         IN  /\ err' = ex.err
             /\ sink' = ex.sink /\ stdout' = ex.stdout
             /\ trace' = trace \o <<Ev("__exit__"), Ev("end")>>
                          \o (IF Len(ex.sink) > Len(sink) THEN <<Ev("add")>> ELSE <<>>)

ExcTypes == {None, [k |-> "type", name |-> "Exception"]}

\* m.__exit__(exc_type), called by the client
CallExit ==
    /\ Direct
    /\ \E exc_type \in ExcTypes : __exit__(1, exc_type)
    /\ ret' = IF err' = "none" THEN None ELSE Unset
    /\ UNCHANGED <<pc, _results, _energy_begin, _ts_begin, now, counters>>

\* with m: the interpreter calls m.__enter__(), which is begin()
WithEnter ==
    /\ Direct
    /\ begin
    /\ pc' = "with_body"
    /\ err' = "none" /\ ret' = None
    /\ trace' = trace \o <<Ev("__enter__"), Ev("begin")>>
    /\ UNCHANGED <<_results, now, counters, sink, stdout>>

\* with m: the body runs, and ends normally or by raising
WithBody ==
    /\ Step("with_body")
    /\ Run
    /\ \E raised \in BOOLEAN :
        /\ err' = IF raised THEN "Exception" ELSE "none"
        /\ trace' = Append(trace, [op |-> "body", raised |-> raised])
    /\ pc' = "with_exit"
    /\ UNCHANGED <<_results, _energy_begin, _ts_begin, sink, stdout, ret>>

\* with m: the interpreter calls m.__exit__(exc_type, exc_value, traceback),
\* three arguments after self
WithExit ==
    /\ Step("with_exit")
    /\ __exit__(3, IF err = "none" THEN None ELSE [k |-> "type", name |-> err])
    /\ pc' = "api"
    /\ ret' = IF err' = "none" THEN None ELSE Unset
    /\ UNCHANGED <<_results, _energy_begin, _ts_begin, now, counters>>

NextApi ==
    \/ New
    \/ CallBegin \/ Region \/ CallEnd \/ CallCreateResult \/ CallResult \/ CallExport
    \/ CallExit \/ WithEnter \/ WithBody \/ WithExit

SpecApi == Init /\ [][NextApi]_vars

-----------------------------------------------------------------------------
(* end() on arbitrary snapshots: the session began on one arbitrary        *)
(* snapshot and the sensor now shows another.                              *)

BeginSnapshots == {[p \in Positions |-> v] : v \in {0, MaxReading}}

InitEnd ==
    /\ pc = "api"
    /\ method = "" /\ number = 0 /\ raw = FALSE
    /\ i = 0 /\ val = Unset /\ df = Unset
    /\ _results = Unset
    /\ \E b \in BeginSnapshots : _energy_begin = Array(b)
    /\ _ts_begin = PyInt(0)
    /\ now \in 0..MaxTick
    /\ counters \in AnySnapshots
    /\ sink = <<>> /\ stdout = <<>>
    /\ err = "none" /\ ret = Unset
    /\ trace = <<Ev("begin")>>
    /\ ops = 1

NextEnd == CallEnd

SpecEnd == InitEnd /\ [][NextEnd]_vars

-----------------------------------------------------------------------------
(* Properties.                                                             *)

Finished == pc \in {"returned", "failed"}
Count(op) == Cardinality({k \in 1..Len(trace) : trace[k].op = op})
LastOp == IF trace = <<>> THEN "" ELSE trace[Len(trace)].op

\* The record of the session that just ended, before any scaling.
SessionRecord ==
    Result(Label, DivPow10(_ts_begin, NS_EXP), DivPow10(end[1], NS_EXP),
           end[2], end[3], None, None, None)

(* C1: under method "global" with number >= 1, a call of the wrapper ends  *)
(* without an exception and has handed exactly one record to the output:   *)
(* the record of the one session divided by number, its confidence fields  *)
(* None.                                                                   *)
C1_GlobalEmitsAverage ==
    (method = "global" /\ number >= 1 /\ Finished) =>
        /\ pc = "returned" /\ err = "none"
        /\ Len(sink) = 1
        /\ sink[1] = ResultDiv(SessionRecord, number)

ConstantSample == \A r \in 1..Len(df.rows) : df.rows[r] = df.rows[1]
Zero == PyFloat(0, 1, 0)

(* C2: under method "confidence" with number >= 2 the record's duration is *)
(* the mean of the Duration column; when every run gave the same duration  *)
(* and readings, every mean is that constant and every confidence          *)
(* half-width is 0.                                                        *)
C2_ConfidenceMeans ==
    (method = "confidence" /\ number >= 2 /\ pc \in {"export", "returned"}) =>
        /\ _results.duration = DivPow10(Mean(Column(df, 1)), NS_EXP)
        /\ ConstantSample =>
            LET npkg == Len(_results.pkg.items)
                ndram == Len(_results.dram.items)
            IN  /\ _results.duration = DivPow10(df.rows[1][1], NS_EXP)
                /\ _results.duration_conf = Zero
                /\ \A j \in 1..npkg :
                    /\ _results.pkg.items[j] = PyFloat(df.rows[1][1 + j].v, 1, 0)
                    /\ _results.pkg_conf.items[j] = Zero
                /\ \A j \in 1..ndram :
                    /\ _results.dram.items[j] = PyFloat(df.rows[1][1 + npkg + j].v, 1, 0)
                    /\ _results.dram_conf.items[j] = Zero

\* The delta of the session that end() just closed, and its two series.
Delta == [p \in Positions |-> counters[p] - _energy_begin.a[p]]
PkgSeries == [j \in 1..Sockets |-> Delta[2 * j - 1]]
DramSeries == [j \in 1..Sockets |-> Delta[2 * j]]

(* C3: end() returns a series as None if and only if every element of it   *)
(* is negative, and otherwise returns it unchanged, negative entries       *)
(* included; the package series and the DRAM series are judged on their    *)
(* own.                                                                    *)
C3_SentinelRule ==
    ret.k = "tuple" =>
        /\ (ret.items[2] = None) <=> (\A j \in 1..Sockets : PkgSeries[j] < 0)
        /\ (ret.items[2] # None) => ret.items[2] = IntList(PkgSeries)
        /\ (ret.items[3] = None) <=> (\A j \in 1..Sockets : DramSeries[j] < 0)
        /\ (ret.items[3] # None) => ret.items[3] = IntList(DramSeries)

\* A package series with a negative and a non-negative entry is kept as it
\* is while the all-negative DRAM series of the same delta is None.
C3_Witness ==
    /\ ret.k = "tuple"
    /\ \E j, l \in 1..Sockets : PkgSeries[j] < 0 /\ PkgSeries[l] >= 0
    /\ ret.items[2] = IntList(PkgSeries)
    /\ ret.items[3] = None

(* C4: a call with a method that is neither "global" nor "confidence"      *)
(* fails with a ValueError, and in it the function is never run, the       *)
(* sensor never read, no record created and the output never called.       *)
C4_UnknownPolicy ==
    (pc # "idle" /\ method \notin {"global", "confidence"}) =>
        /\ pc = "failed" /\ err = "ValueError"
        /\ trace = <<>>
        /\ _energy_begin = Unset /\ _ts_begin = Unset
        /\ val = Unset
        /\ _results = Unset
        /\ sink = <<>> /\ stdout = <<>>

C4_Witness == pc = "failed" /\ method = "bogus" /\ err = "ValueError"

(* C5: whenever a call of the wrapper returns, the output was handed       *)
(* exactly one record, after all number runs of the function and after the *)
(* record was created, and the value returned is what the last run of the  *)
(* function returned.                                                      *)
C5_ExportThenReturn ==
    pc = "returned" =>
        LET n == Len(trace)
        IN  /\ Len(sink) = 1 /\ sink[1] = _results
            /\ Count("add") = 1 /\ trace[n].op = "add"
            /\ Count("func") = number
            /\ \E c \in 1..(n - 1) :
                /\ trace[c].op = "create_result"
                /\ \A k \in 1..n : trace[k].op = "func" => k < c
            /\ \E k \in 1..n :
                /\ trace[k].op = "func"
                /\ \A l \in (k + 1)..n : trace[l].op # "func"
                /\ ret = trace[k].ret

C5_Witness == pc = "returned" /\ number >= 2 /\ ret = FuncReturn(number)

HasTitle(lines, title) == \E k \in 1..Len(lines) : lines[k].t = title

(* C6: PrintOutput.add prints every record it is handed, also one whose    *)
(* pkg, dram or confidence fields are None, and the text has a domain's    *)
(* section exactly when the domain's series is not None.                   *)
C6_PrintTolerant ==
    ~raw =>
        /\ Len(stdout) = Len(sink)
        /\ \A k \in 1..Len(stdout) :
            /\ HasTitle(stdout[k], "PKG") <=> (sink[k].pkg # None)
            /\ HasTitle(stdout[k], "DRAM") <=> (sink[k].dram # None)

(* C7: reading Measurement.result while no record was created raises the   *)
(* AttributeError of an unmeasured result and returns nothing; once        *)
(* create_result has succeeded it returns that record.                     *)
C7_UnmeasuredAccess ==
    LastOp = "result" =>
        IF _results = Unset
        THEN err = "AttributeError" /\ ret = Unset
        ELSE err = "none" /\ ret = _results

\* The result is read after begin() and end(), with no create_result.
C7_Witness ==
    /\ LastOp = "result" /\ _results = Unset
    /\ Count("begin") = 1 /\ Count("end") = 1 /\ Count("create_result") = 0
    /\ err = "AttributeError"

\* The begin(), func() and end() calls of the trace, in order.
IsSessionEvent(e) == e.op \in {"begin", "func", "end"}
SessionEvents == SelectSeq(trace, IsSessionEvent)

(* C8: under "global" one begin() comes before the first run of the        *)
(* function and one end() after the last, two sensor reads whatever number *)
(* is; under "confidence" begin(), one run and end() follow each other     *)
(* number times; no run is outside a session.                              *)
C8_SessionPlacement ==
    LET s == SessionEvents
    IN  /\ method = "global" =>
            /\ Len(s) <= number + 2
            /\ \A k \in 1..Len(s) :
                s[k].op = (IF k = 1 THEN "begin"
                           ELSE IF k = number + 2 THEN "end" ELSE "func")
            /\ Finished => Len(s) = number + 2
        /\ method = "confidence" =>
            /\ Len(s) <= 3 * number
            /\ \A k \in 1..Len(s) :
                s[k].op = (CASE k % 3 = 1 -> "begin"
                             [] k % 3 = 2 -> "func"
                             [] OTHER -> "end")
            /\ Finished => Len(s) = 3 * number

C8_Witness ==
    /\ method = "confidence" /\ pc = "returned" /\ number >= 2
    /\ Count("begin") = number /\ Count("end") = number

(* C9: when a Measurement is the context of a with statement, end() runs   *)
(* on every way out of the body; when the body did not raise, a record of  *)
(* the region exists and is handed to the output; when it raised, nothing  *)
(* is exported.                                                            *)
C9_ScopedExit ==
    \A k \in 1..Len(trace) :
        (trace[k].op = "body" /\ k < Len(trace)) =>
            /\ k + 2 <= Len(trace) /\ trace[k + 2].op = "end"
            /\ ~trace[k].raised =>
                /\ _results # Unset
                /\ k + 3 <= Len(trace) /\ trace[k + 3].op = "add"
            /\ trace[k].raised =>
                ~(k + 3 <= Len(trace) /\ trace[k + 3].op = "add")

(* C10: when the sensor shows the sentinel -1 on every socket of a domain  *)
(* at begin() and at end(), end() returns None for that domain.            *)
C10_SentinelAbsent ==
    (LastOp = "end" /\ err = "none" /\ ret.k = "tuple") =>
        /\ (\A j \in 1..Sockets :
                _energy_begin.a[2 * j - 1] = -1 /\ counters[2 * j - 1] = -1)
            => ret.items[2] = None
        /\ (\A j \in 1..Sockets :
                _energy_begin.a[2 * j] = -1 /\ counters[2 * j] = -1)
            => ret.items[3] = None

====
